---- MODULE Spec2Model ----
(***************************************************************************)
(* A model of edgevpn's ledger-coordinated services:                       *)
(*   pkg/services/alive.go   - heartbeat, live set, leader-gated scrub     *)
(*   pkg/edgevpn/services.go - service registry and the stream tunnel      *)
(* The ledger (pkg/blockchain) and the leader function (pkg/utils) are not *)
(* part of the sources at hand; they are modelled from their contract.     *)
(***************************************************************************)
EXTENDS Integers, Sequences, FiniteSets, TLC

VARIABLES
    now,        \* the wall clock (time.Now()), shared: clocks are synchronized
    ledger,     \* Storage of the last block: bucket -> (key -> value)
    scrubTime,  \* Alive's scrubTime argument
    alive,      \* per node: the monitor is "off", "running" or "cancelled"
    t,          \* per node: the closure variable t of Alive (last scrub check)
    nextTick,   \* per node: when the announce ticker fires next
    apc,        \* per node: position inside the announce callback
    startedAt,  \* history: per node, when its monitor started (-1: not yet)
    deleted,    \* history: the DeleteBucket calls made, as [node, at]
    pending,    \* history: per node, the oldest delete its heartbeat has not outlived
    active,     \* the result of one AvailableNodes call
    lead,       \* the result of one utils.Leader call
    ppc,        \* position of the live-set computation
    pub,        \* per ExposeService call: its announce callback (Publish)
    pubClean,   \* history: per call, no other peer wrote the name since its last tick began
    pubSecond,  \* history: per call, the tick in progress follows such a tick
    con,        \* per ConnectToService call: listener and announce callback (Grant)
    userWrites, \* history: per peer, the writes made under its key of the users bucket
    handler,    \* per peer: StreamHandlers[ServiceProtocol]
    cpc,        \* per connection: position of ConnectToService's handler goroutine
    epc,        \* per connection: position of the stream handler goroutine
    cinfo,      \* per connection: the call that accepted it, the decoded owner, the handler run
    ep,         \* per connection: the state of its six endpoints
    q,          \* per connection: the bytes buffered, in flight and delivered
    task,       \* per connection: its four copyStream goroutines
    closer,     \* per connection: signals buffered in the closer channel of each side
    gh          \* history, per connection: what the handlers saw and tried

aliveVars == <<scrubTime, alive, t, nextTick, apc, startedAt, deleted, pending>>
pureVars == <<active, lead, ppc>>
regVars == <<pub, pubClean, pubSecond, con, userWrites, handler>>
tunVars == <<cpc, epc, cinfo, ep, q, task, closer, gh>>
vars == <<now, ledger, aliveVars, pureVars, regVars, tunVars>>

----------------------------------------------------------------------------
(* Bounds and program constants                                            *)

Nodes == {"n1", "n2", "n3"}

\* The clock stops at MaxTime.
MaxTime == 5
\* Clock units per second: RFC3339 keeps whole seconds only.
Second == 2
\* Alive's announcetime argument, in clock units.
announcetime == 2
\* The scrubTime arguments tried, 1..MaxScrubTime.
MaxScrubTime == 3
\* 15 * time.Minute, scaled to the clock of the model.
LivenessTTL == 5

\* The number of ExposeService calls.
MaxExpose == 2
\* The clock of the registry stops at MaxRegTime.
MaxRegTime == 1

\* Bytes written by each endpoint of a connection.
MaxMsg == 1
\* Errors returned by l.Accept() to one accept loop.
MaxAcceptErr == 1

Peers == {"A", "B"}
Names == {"web"}
Dsts == {"d1", "d2"}
ExposeIds == 1..MaxExpose
\* The ConnectToService calls.
ConnectIds == {1, 2}
Conns == {1, 2}
Tasks == {"bUp", "bDown", "aUp", "aDown"}

None == "none"
HealthCheckKey == "healthcheck"
ServicesLedgerKey == "services"
UsersLedgerKey == "users"
Buckets == {HealthCheckKey, ServicesLedgerKey, UsersLedgerKey}

Range(s) == {s[i] : i \in DOMAIN s}
EmptyMap == [k \in {} |-> None]
Max(a, b) == IF a > b THEN a ELSE b

----------------------------------------------------------------------------
(* The ledger facade                                                       *)

EmptyLedger == [b \in Buckets |-> EmptyMap]

\* Add: merge-write of the entries m into bucket b.
Add(l, b, m) ==
    [l EXCEPT ![b] = [k \in DOMAIN l[b] \cup DOMAIN m |->
                        IF k \in DOMAIN m THEN m[k] ELSE l[b][k]]]

\* DeleteBucket: every key of bucket b is removed.
DeleteBucket(l, b) == [l EXCEPT ![b] = EmptyMap]

\* GetKey: point lookup, (value, found).
GetKeyFound(l, b, k) == k \in DOMAIN l[b]
GetKey(l, b, k) == IF k \in DOMAIN l[b] THEN l[b][k] ELSE None

----------------------------------------------------------------------------
(* Heartbeat values                                                        *)

\* time.Now().Format(time.RFC3339): the whole seconds of the clock reading.
Format(time) == [kind |-> "rfc3339", sec |-> time \div Second]
\* A value that does not unmarshal to an RFC3339 string.
Garbage == [kind |-> "garbage", sec |-> 0]
\* The zero time.Time that time.Parse returns with an error: before every
\* clock reading, by more than the TTL.
ZeroTime == (0 - LivenessTTL) - 1
\* t.Unmarshal(&s); parsed, _ := time.Parse(time.RFC3339, s)
\* -- mutant: a value that does not parse counts as written at time 0
ParseAsEpoch(v) == IF v.kind = "rfc3339" THEN v.sec * Second ELSE 0
Parse(v) == IF v.kind = "rfc3339" THEN v.sec * Second ELSE ZeroTime

\* parsed.Add(15 * time.Minute).After(time.Now())  -- mutant: not Before
LiveOrEqual(parsed, time) == parsed + LivenessTTL >= time
Live(parsed, time) == parsed + LivenessTTL > time

\* The keys AvailableNodes appends.
ActiveKeys(l, time) ==
    {u \in DOMAIN l[HealthCheckKey] : Live(Parse(l[HealthCheckKey][u]), time)}

\* All duplicate-free lists of the elements of S: the orders in which the
\* range over a Go map may visit them.
Orders(S) ==
    {s \in [1..Cardinality(S) -> S] : \A i, j \in 1..Cardinality(S) : s[i] = s[j] => i = j}

\* AvailableNodes: the live keys, in the map's (unspecified) iteration order.
AvailableNodes(l, time) == Orders(ActiveKeys(l, time))

----------------------------------------------------------------------------
(* utils.Leader: the entry with the highest hash, found by one pass        *)

hash == [n \in Nodes |-> CASE n = "n1" -> 2 [] n = "n2" -> 3 [] OTHER -> 1]

RECURSIVE LeaderFrom(_, _, _)
LeaderFrom(actives, i, leader) ==
    IF i > Len(actives) THEN leader
    ELSE LeaderFrom(actives, i + 1,
                    IF hash[leader] < hash[actives[i]] THEN actives[i] ELSE leader)

\* mutant: the first entry of the list
LeaderFirst(actives) == actives[1]
Leader(actives) == LeaderFrom(actives, 1, actives[1])

----------------------------------------------------------------------------
(* Alive: the announce callback of one node                                *)

\* !t.Add(scrubTime).After(time.Now())  -- mutant: the interval is not checked
ScrubDueAlways(last, interval, time) == TRUE
ScrubDue(last, interval, time) == ~(last + interval > time)

\* The entries of the keep-alive write  -- mutant: written at the start only,
\* as if the Add stood outside the announce callback
HeartbeatOnce(n, time) == IF t[n] = time THEN [k \in {n} |-> Format(time)] ELSE EmptyMap
Heartbeat(n, time) == [k \in {n} |-> Format(time)]

\* The network service starts: t := time.Now(), and Announce runs the callback
\* at once and then every announcetime.
Start(n) ==
    /\ alive[n] = "off"
    /\ alive' = [alive EXCEPT ![n] = "running"]
    /\ t' = [t EXCEPT ![n] = now]
    /\ nextTick' = [nextTick EXCEPT ![n] = now]
    /\ startedAt' = [startedAt EXCEPT ![n] = now]
    /\ UNCHANGED <<now, ledger, scrubTime, apc, deleted, pending, pureVars, regVars, tunVars>>

\* ctx is cancelled: no further tick; a tick in progress runs to its end.
Cancel(n) ==
    /\ alive[n] = "running"
    /\ alive' = [alive EXCEPT ![n] = "cancelled"]
    /\ UNCHANGED <<now, ledger, scrubTime, t, nextTick, apc, startedAt, deleted, pending, pureVars, regVars, tunVars>>

\* The keep-alive: b.Add(protocol.HealthCheckKey, {id: now})
TickAdd(n) ==
    /\ alive[n] = "running"
    /\ apc[n] = "idle"
    /\ nextTick[n] <= now
    /\ ledger' = Add(ledger, HealthCheckKey, Heartbeat(n, now))
    /\ apc' = [apc EXCEPT ![n] = "scrub"]
    /\ pending' = [pending EXCEPT ![n] = IF n \in DOMAIN ledger'[HealthCheckKey]
                                         THEN -1 ELSE @]
    /\ UNCHANGED <<now, scrubTime, alive, t, nextTick, startedAt, deleted, pureVars, regVars, tunVars>>

\* t = time.Now() inside the interval test, before the leader test
\* -- mutant: the timer is updated by the leader only
ScrubTimerOfLeader(last, due, del, time) == IF del THEN time ELSE last
ScrubTimer(last, due, del, time) == IF due THEN time ELSE last

\* b.DeleteBucket(protocol.HealthCheckKey), after the keep-alive of the tick
\* -- mutant: as if the keep-alive were written after the delete
ScrubThenHeartbeat(l, n, time) ==
    Add(DeleteBucket(l, HealthCheckKey), HealthCheckKey, Heartbeat(n, time))
Scrub(l, n, time) == DeleteBucket(l, HealthCheckKey)

\* The keep-alive scrub: the rest of the callback.
TickScrub(n) ==
    /\ apc[n] = "scrub"
    /\ \E nodes \in AvailableNodes(ledger, now) :
        LET due == Len(nodes) # 0 /\ ScrubDue(t[n], scrubTime, now)
            del == due /\ Leader(nodes) = n
        IN  /\ t' = [t EXCEPT ![n] = ScrubTimer(@, due, del, now)]
            /\ ledger' = IF del THEN Scrub(ledger, n, now) ELSE ledger
            /\ deleted' = IF del THEN deleted \cup {[node |-> n, at |-> now]} ELSE deleted
            /\ pending' = IF del
                          THEN [m \in Nodes |-> IF pending[m] = -1 /\ alive[m] # "off"
                                                THEN now ELSE pending[m]]
                          ELSE pending
    /\ apc' = [apc EXCEPT ![n] = "idle"]
    /\ nextTick' = [nextTick EXCEPT ![n] = now + announcetime]
    /\ UNCHANGED <<now, scrubTime, alive, startedAt, pureVars, regVars, tunVars>>

\* Time passes when no ticker is due and no callback is running.
Advance ==
    /\ now < MaxTime
    /\ \A n \in Nodes : apc[n] = "idle" /\ (alive[n] = "running" => nextTick[n] > now)
    /\ now' = now + 1
    /\ UNCHANGED <<ledger, aliveVars, pureVars, regVars, tunVars>>

\* No stream handler is set for the protocol.
NoHandler == [name |-> None, dst |-> None]

\* No ExposeService and no ConnectToService call was made.
RegIdle ==
    /\ pub = [x \in ExposeIds |-> [st |-> "off", peer |-> None, name |-> None, dst |-> None]]
    /\ pubClean = [x \in ExposeIds |-> FALSE]
    /\ pubSecond = [x \in ExposeIds |-> FALSE]
    /\ con = [k \in ConnectIds |-> [st |-> "off", peer |-> None, name |-> None, gst |-> "off", errs |-> 0]]
    /\ userWrites = [p \in Peers |-> 0]
    /\ handler = [p \in Peers |-> NoHandler]

\* No connection was accepted.
NoEndpoints == [client |-> "none", connB |-> "none", strB |-> "none",
                strA |-> "none", dconnA |-> "none", dstEnd |-> "none"]
NoBytes == [cliOut |-> <<>>, up1 |-> <<>>, dstRecv |-> <<>>,
            dstOut |-> <<>>, down1 |-> <<>>, cliRecv |-> <<>>, cliN |-> 0, dstN |-> 0]
NoHistory == [svc |-> "unread", streamTried |-> FALSE, user |-> "unchecked", dialed |-> FALSE]
TunIdle ==
    /\ cpc = [c \in Conns |-> "free"]
    /\ epc = [c \in Conns |-> "none"]
    /\ cinfo = [c \in Conns |-> [call |-> 0, errs |-> 0, target |-> None, hname |-> None, hdst |-> None]]
    /\ ep = [c \in Conns |-> NoEndpoints]
    /\ q = [c \in Conns |-> NoBytes]
    /\ task = [c \in Conns |-> [k \in Tasks |-> "off"]]
    /\ closer = [c \in Conns |-> [B |-> 0, A |-> 0]]
    /\ gh = [c \in Conns |-> NoHistory]

InitAlive ==
    /\ now = 0
    /\ ledger = EmptyLedger
    /\ RegIdle
    /\ TunIdle
    /\ scrubTime \in 1..MaxScrubTime
    /\ alive = [n \in Nodes |-> "off"]
    /\ t = [n \in Nodes |-> 0]
    /\ nextTick = [n \in Nodes |-> 0]
    /\ apc = [n \in Nodes |-> "idle"]
    /\ startedAt = [n \in Nodes |-> -1]
    /\ deleted = {}
    /\ pending = [n \in Nodes |-> -1]
    /\ active = <<>>
    /\ lead = None
    /\ ppc = "alive"

NextAlive ==
    \/ \E n \in Nodes : Start(n)
    \/ \E n \in Nodes : Cancel(n)
    \/ \E n \in Nodes : TickAdd(n)
    \/ \E n \in Nodes : TickScrub(n)
    \/ Advance

SpecAlive == InitAlive /\ [][NextAlive]_vars

----------------------------------------------------------------------------
(* The live set and the leader, computed on any snapshot at any time       *)

\* The values a healthcheck entry may hold.
HeartbeatValues == {Format(time) : time \in 0..MaxTime} \cup {Garbage}
\* Every content of the healthcheck bucket.
HealthCheckMaps == UNION {[K -> HeartbeatValues] : K \in SUBSET Nodes}

\* nodes := AvailableNodes(b)
ComputeLive ==
    /\ ppc = "input"
    /\ active' \in AvailableNodes(ledger, now)
    /\ ppc' = "computed"
    /\ UNCHANGED <<now, ledger, aliveVars, lead, regVars, tunVars>>

\* lead := utils.Leader(nodes), reached when len(nodes) # 0
Elect ==
    /\ ppc = "computed"
    /\ Len(active) # 0
    /\ lead' = Leader(active)
    /\ ppc' = "elected"
    /\ UNCHANGED <<now, ledger, aliveVars, active, regVars, tunVars>>

InitLive ==
    /\ RegIdle
    /\ TunIdle
    /\ now \in 0..MaxTime
    /\ \E m \in HealthCheckMaps : ledger = [EmptyLedger EXCEPT ![HealthCheckKey] = m]
    /\ scrubTime = 1
    /\ alive = [n \in Nodes |-> "off"]
    /\ t = [n \in Nodes |-> 0]
    /\ nextTick = [n \in Nodes |-> 0]
    /\ apc = [n \in Nodes |-> "idle"]
    /\ startedAt = [n \in Nodes |-> -1]
    /\ deleted = {}
    /\ pending = [n \in Nodes |-> -1]
    /\ active = <<>>
    /\ lead = None
    /\ ppc = "input"

NextLive == ComputeLive \/ Elect

SpecLive == InitLive /\ [][NextLive]_vars

----------------------------------------------------------------------------
(* The service registry: the announce callbacks of ExposeService and       *)
(* ConnectToService                                                        *)

\* types.Service{PeerID, Name} and types.User{PeerID, Timestamp}
Service(p, s) == [PeerID |-> p, Name |-> s]
User(p, time) == [PeerID |-> p, Timestamp |-> time]
\* An entry that does not unmarshal to a Service: the fields stay empty.
Malformed == [PeerID |-> "", Name |-> ""]
\* service := &types.Service{}; existingValue.Unmarshal(service)
ServiceOf(l, s) ==
    IF GetKeyFound(l, ServicesLedgerKey, s) THEN GetKey(l, ServicesLedgerKey, s) ELSE Malformed
\* peer.Decode(service.PeerID) returns no error.
Decodes(pid) == pid \in Peers

\* !found || service.PeerID != e.host.ID().String()
\* -- mutant: the entry is written on every tick
NeedsPublishAlways(l, s, p) == TRUE
\* -- mutant: the owner of an existing entry is not compared
NeedsPublishIfAbsent(l, s, p) == ~GetKeyFound(l, ServicesLedgerKey, s)
NeedsPublish(l, s, p) ==
    ~GetKeyFound(l, ServicesLedgerKey, s) \/ ServiceOf(l, s).PeerID # p

\* e.config.StreamHandlers[protocol.ID(ServiceProtocol)] = func(stream) {...}:
\* the one entry of the node for the protocol is assigned; the function holds
\* the serviceID and dstaddress of this call.
\* -- mutant: a handler already set is kept
KeepHandler(h, s, d) == IF h = [name |-> None, dst |-> None] THEN [name |-> s, dst |-> d] ELSE h
SetHandler(h, s, d) == [name |-> s, dst |-> d]

\* ExposeService: the Publish callback is registered and the stream handler set.
ExposeService(x, p, s, d) ==
    /\ pub[x].st = "off"
    /\ \A y \in ExposeIds : y < x => pub[y].st # "off"
    /\ pub' = [pub EXCEPT ![x] = [st |-> "idle", peer |-> p, name |-> s, dst |-> d]]
    /\ handler' = [handler EXCEPT ![p] = SetHandler(@, s, d)]
    /\ UNCHANGED <<now, ledger, aliveVars, pureVars, pubClean, pubSecond, con, userWrites, tunVars>>

\* A Publish tick: ledger.GetKey(ServicesLedgerKey, serviceID) and the test.
PublishRead(x) ==
    /\ pub[x].st = "idle"
    /\ LET need == NeedsPublish(ledger, pub[x].name, pub[x].peer)
       IN  /\ pub' = [pub EXCEPT ![x].st = IF need THEN "write" ELSE "idle"]
           /\ pubSecond' = [pubSecond EXCEPT ![x] = pubClean[x]]
           /\ pubClean' = [pubClean EXCEPT ![x] = TRUE]
    /\ UNCHANGED <<now, ledger, aliveVars, pureVars, con, userWrites, handler, tunVars>>

\* A Publish tick: ledger.Add(ServicesLedgerKey, {serviceID: Service{self, serviceID}})
PublishWrite(x) ==
    /\ pub[x].st = "write"
    /\ ledger' = Add(ledger, ServicesLedgerKey,
                     [k \in {pub[x].name} |-> Service(pub[x].peer, pub[x].name)])
    /\ pub' = [pub EXCEPT ![x].st = "idle"]
    /\ pubClean' = [y \in ExposeIds |->
                        IF y = x THEN TRUE
                        ELSE IF pub[y].name = pub[x].name /\ pub[y].peer # pub[x].peer
                             THEN FALSE ELSE pubClean[y]]
    /\ UNCHANGED <<now, aliveVars, pureVars, pubSecond, con, userWrites, handler, tunVars>>

\* Another participant of the network writes an entry for s that does not
\* decode (the ledger is open to every peer).
ForeignWrite(s) ==
    /\ ~GetKeyFound(ledger, ServicesLedgerKey, s) \/ ServiceOf(ledger, s) # Malformed
    /\ ledger' = Add(ledger, ServicesLedgerKey, [k \in {s} |-> Malformed])
    /\ pubClean' = [y \in ExposeIds |-> IF pub[y].name = s THEN FALSE ELSE pubClean[y]]
    /\ UNCHANGED <<now, aliveVars, pureVars, pub, pubSecond, con, userWrites, handler, tunVars>>

\* ConnectToService: net.Listen("tcp", srcaddr), which may fail.
ConnectListen(k, p, s) ==
    /\ con[k].st = "off"
    /\ \A j \in ConnectIds : j < k => con[j].st # "off"
    /\ \E st \in {"bound", "failed"} :
        con' = [con EXCEPT ![k] = [st |-> st, peer |-> p, name |-> s, gst |-> "off", errs |-> 0]]
    /\ UNCHANGED <<now, ledger, aliveVars, pureVars, pub, pubClean, pubSecond, userWrites, handler, tunVars>>

\* ConnectToService: the Grant callback is registered, the accept loop entered.
ConnectAnnounce(k) ==
    /\ con[k].st = "bound"
    /\ con' = [con EXCEPT ![k].st = "accepting", ![k].gst = "idle"]
    /\ UNCHANGED <<now, ledger, aliveVars, pureVars, pub, pubClean, pubSecond, userWrites, handler, tunVars>>

\* A Grant tick: ledger.GetKey(UsersLedgerKey, self) and the test.
GrantRead(k) ==
    /\ con[k].gst = "idle"
    /\ ~GetKeyFound(ledger, UsersLedgerKey, con[k].peer)
    /\ con' = [con EXCEPT ![k].gst = "write"]
    /\ UNCHANGED <<now, ledger, aliveVars, pureVars, pub, pubClean, pubSecond, userWrites, handler, tunVars>>

\* A Grant tick: ledger.Add(UsersLedgerKey, {self: User{self, time.Now()}})
GrantWrite(k) ==
    /\ con[k].gst = "write"
    /\ ledger' = Add(ledger, UsersLedgerKey, [u \in {con[k].peer} |-> User(con[k].peer, now)])
    /\ userWrites' = [userWrites EXCEPT ![con[k].peer] = @ + 1]
    /\ con' = [con EXCEPT ![k].gst = "idle"]
    /\ UNCHANGED <<now, aliveVars, pureVars, pub, pubClean, pubSecond, handler, tunVars>>

\* Time passes.
Tock ==
    /\ now < MaxRegTime
    /\ now' = now + 1
    /\ UNCHANGED <<ledger, aliveVars, pureVars, regVars, tunVars>>

\* The monitor is not part of the registry runs.
AliveIdle ==
    /\ scrubTime = 1
    /\ alive = [n \in Nodes |-> "off"]
    /\ t = [n \in Nodes |-> 0]
    /\ nextTick = [n \in Nodes |-> 0]
    /\ apc = [n \in Nodes |-> "idle"]
    /\ startedAt = [n \in Nodes |-> -1]
    /\ deleted = {}
    /\ pending = [n \in Nodes |-> -1]
    /\ active = <<>>
    /\ lead = None
    /\ ppc = "registry"

InitReg ==
    /\ now = 0
    /\ ledger = EmptyLedger
    /\ AliveIdle
    /\ RegIdle
    /\ TunIdle

\* One ExposeService call, the ConnectToService calls, and a writer outside
\* the two peers.
NextReg ==
    \/ \E p \in Peers, s \in Names, d \in Dsts : ExposeService(1, p, s, d)
    \/ PublishRead(1)
    \/ PublishWrite(1)
    \/ \E s \in Names : ForeignWrite(s)
    \/ \E k \in ConnectIds, p \in Peers, s \in Names : ConnectListen(k, p, s)
    \/ \E k \in ConnectIds : ConnectAnnounce(k)
    \/ \E k \in ConnectIds : GrantRead(k)
    \/ \E k \in ConnectIds : GrantWrite(k)
    \/ Tock

SpecReg == InitReg /\ [][NextReg]_vars

\* The publishers alone. The services bucket starts empty or with an entry
\* left by a peer that has stopped: a claim of a peer, or a value that does
\* not decode.
StaleEntries(s) == {Service(p, s) : p \in Peers} \cup {Malformed}
InitPublish ==
    /\ now = 0
    /\ \E s \in Names :
        ledger \in {EmptyLedger} \cup
                   {Add(EmptyLedger, ServicesLedgerKey, [k \in {s} |-> v]) : v \in StaleEntries(s)}
    /\ AliveIdle
    /\ RegIdle
    /\ TunIdle

NextPublish ==
    \/ \E x \in ExposeIds, p \in Peers, s \in Names, d \in Dsts : ExposeService(x, p, s, d)
    \/ \E x \in ExposeIds : PublishRead(x)
    \/ \E x \in ExposeIds : PublishWrite(x)

\* ledger.Announce runs the callback every LedgerAnnounceTime, for ever
\* (context.Background()).
PublishTicks(x) == WF_vars(PublishRead(x)) /\ WF_vars(PublishWrite(x))

SpecPublish == InitPublish /\ [][NextPublish]_vars /\ \A x \in ExposeIds : PublishTicks(x)

----------------------------------------------------------------------------
(* The stream tunnel: ConnectToService's accept loop and per-connection    *)
(* goroutine, the stream handler of ExposeService, copyStream              *)

\* The i-th byte written by the client ("up") or the destination ("down")
\* of connection c.
Payload(c, dir, i) == <<c, dir, i>>

\* The peer whose ConnectToService call accepted connection c: the remote
\* peer of the stream it opens.
RemotePeer(c) == con[cinfo[c].call].peer

\* _, found := ledger.GetKey(UsersLedgerKey, remote)  -- mutant: no admission check
GrantedAlways(l, p) == TRUE
Granted(l, p) == GetKeyFound(l, UsersLedgerKey, p)

\* conn.Close() on the abort paths of ConnectToService  -- mutant: the
\* connection is left open
LeakConn(e) == e
CloseConn(e) == [e EXCEPT !.connB = "closed"]

\* stream.Reset(): both ends of the stream fail from now on.
ResetStream(e) ==
    [e EXCEPT !.strA = "reset", !.strB = IF e.strB = "open" THEN "reset" ELSE e.strB]

\* conn, err := l.Accept() returns a connection; its goroutine starts.
Accept(k, c) ==
    /\ con[k].st = "accepting"
    /\ cpc[c] = "free"
    /\ \A c2 \in Conns : c2 < c => cpc[c2] # "free"
    /\ cpc' = [cpc EXCEPT ![c] = "resolve"]
    /\ cinfo' = [cinfo EXCEPT ![c].call = k, ![c].errs = con[k].errs]
    /\ ep' = [ep EXCEPT ![c].client = "open", ![c].connB = "open"]
    /\ UNCHANGED <<now, ledger, aliveVars, pureVars, regVars, epc, q, task, closer, gh>>

\* conn, err := l.Accept() returns an error: it is logged and the loop goes
\* on (continue)  -- mutant: the loop is left
AcceptErrorReturns(st) == "returned"
AfterAcceptError(st) == st
AcceptError(k) ==
    /\ con[k].st = "accepting"
    /\ con[k].errs < MaxAcceptErr
    /\ con' = [con EXCEPT ![k].st = AfterAcceptError(@), ![k].errs = @ + 1]
    /\ UNCHANGED <<now, ledger, aliveVars, pureVars, pub, pubClean, pubSecond, userWrites, handler, tunVars>>

\* ledger.GetKey(ServicesLedgerKey, serviceID), Unmarshal, peer.Decode:
\* the connection is closed when the entry is missing or does not decode.
CResolve(c) ==
    /\ cpc[c] = "resolve"
    /\ LET s == con[cinfo[c].call].name
           found == GetKeyFound(ledger, ServicesLedgerKey, s)
           service == ServiceOf(ledger, s)
           ok == found /\ Decodes(service.PeerID)
       IN  /\ cpc' = [cpc EXCEPT ![c] = IF ok THEN "open" ELSE "aborted"]
           /\ cinfo' = [cinfo EXCEPT ![c].target = IF ok THEN service.PeerID ELSE None]
           /\ ep' = [ep EXCEPT ![c] = IF ok THEN @ ELSE CloseConn(@)]
           /\ gh' = [gh EXCEPT ![c].svc =
                        IF s \notin DOMAIN ledger[ServicesLedgerKey] THEN "absent"
                        ELSE IF ledger[ServicesLedgerKey][s].PeerID \in Peers THEN "ok"
                        ELSE "malformed"]
    /\ UNCHANGED <<now, ledger, aliveVars, pureVars, regVars, epc, q, task, closer>>

\* e.host.NewStream(ctx, d, ServiceProtocol): on success the owner's handler
\* is called with the stream and the two copies start; on failure the
\* connection is closed.
CNewStream(c) ==
    /\ cpc[c] = "open"
    /\ gh' = [gh EXCEPT ![c].streamTried = TRUE]
    /\ \/ /\ handler[cinfo[c].target] # NoHandler
          /\ cpc' = [cpc EXCEPT ![c] = "copy"]
          /\ epc' = [epc EXCEPT ![c] = "check"]
          /\ cinfo' = [cinfo EXCEPT ![c].hname = handler[cinfo[c].target].name,
                                    ![c].hdst = handler[cinfo[c].target].dst]
          /\ ep' = [ep EXCEPT ![c].strB = "open", ![c].strA = "open"]
          /\ task' = [task EXCEPT ![c].bUp = "run", ![c].bDown = "run"]
       \/ /\ cpc' = [cpc EXCEPT ![c] = "aborted"]
          /\ ep' = [ep EXCEPT ![c] = CloseConn(@)]
          /\ UNCHANGED <<epc, cinfo, task>>
    /\ UNCHANGED <<now, ledger, aliveVars, pureVars, regVars, q, closer>>

\* The stream handler: the admission check; the stream is reset when the
\* remote peer has no entry in the users bucket.
ECheck(c) ==
    /\ epc[c] = "check"
    /\ gh' = [gh EXCEPT ![c].user =
                 IF RemotePeer(c) \in DOMAIN ledger[UsersLedgerKey] THEN "present" ELSE "absent"]
    /\ IF Granted(ledger, RemotePeer(c))
       THEN /\ epc' = [epc EXCEPT ![c] = "dial"]
            /\ UNCHANGED <<ep, q>>
       ELSE /\ epc' = [epc EXCEPT ![c] = "reset"]
            /\ ep' = [ep EXCEPT ![c] = ResetStream(@)]
            /\ q' = [q EXCEPT ![c].up1 = <<>>, ![c].down1 = <<>>]
    /\ UNCHANGED <<now, ledger, aliveVars, pureVars, regVars, cpc, cinfo, task, closer>>

\* The stream handler: net.Dial("tcp", dstaddress); the two copies start, or
\* the stream is reset when the dial fails.
EDial(c) ==
    /\ epc[c] = "dial"
    /\ gh' = [gh EXCEPT ![c].dialed = TRUE]
    /\ \/ /\ epc' = [epc EXCEPT ![c] = "copy"]
          /\ ep' = [ep EXCEPT ![c].dconnA = "open", ![c].dstEnd = "open"]
          /\ task' = [task EXCEPT ![c].aUp = "run", ![c].aDown = "run"]
          /\ UNCHANGED q
       \/ /\ epc' = [epc EXCEPT ![c] = "reset"]
          /\ ep' = [ep EXCEPT ![c] = ResetStream(@)]
          /\ q' = [q EXCEPT ![c].up1 = <<>>, ![c].down1 = <<>>]
          /\ UNCHANGED task
    /\ UNCHANGED <<now, ledger, aliveVars, pureVars, regVars, cpc, cinfo, closer>>

\* copyStream(closer, dst, src) of each of the four goroutines:
\*   bUp   = copyStream(closer, stream, conn)   in ConnectToService
\*   bDown = copyStream(closer, conn, stream)   in ConnectToService
\*   aDown = copyStream(closer, stream, c)      in the stream handler
\*   aUp   = copyStream(closer, c, stream)      in the stream handler
\* -- mutant: both copies of the stream handler run from the stream to c
SrcQBothUp(k) ==
    CASE k = "bUp" -> "cliOut" [] k = "bDown" -> "down1" [] k = "aUp" -> "up1" [] OTHER -> "up1"
SrcQ(k) ==
    CASE k = "bUp" -> "cliOut" [] k = "bDown" -> "down1" [] k = "aUp" -> "up1" [] OTHER -> "dstOut"
\* -- mutant: the stream handler copies the stream back into the stream
DstQEcho(k) ==
    CASE k = "bUp" -> "up1" [] k = "bDown" -> "cliRecv" [] k = "aUp" -> "down1" [] OTHER -> "down1"
DstQ(k) ==
    CASE k = "bUp" -> "up1" [] k = "bDown" -> "cliRecv" [] k = "aUp" -> "dstRecv" [] OTHER -> "down1"
Side(k) == IF k \in {"bUp", "bDown"} THEN "B" ELSE "A"

\* A Read of src does not fail: the local end of src is open.
SrcOpen(e, k) ==
    CASE SrcQ(k) = "cliOut" -> e.connB = "open"
      [] SrcQ(k) = "down1" -> e.strB = "open"
      [] SrcQ(k) = "up1" -> e.strA = "open"
      [] OTHER -> e.dconnA = "open"
\* A Read of src returns EOF once its buffer is empty: the far end closed.
SrcEOF(e, k) ==
    CASE SrcQ(k) = "cliOut" -> e.client = "closed"
      [] SrcQ(k) = "down1" -> e.strA = "closed"
      [] SrcQ(k) = "up1" -> e.strB = "closed"
      [] OTHER -> e.dstEnd = "closed"
\* A Write to dst does not fail: both of its ends are open.
DstOK(e, k) ==
    CASE DstQ(k) = "up1" -> e.strB = "open" /\ e.strA = "open"
      [] DstQ(k) = "cliRecv" -> e.connB = "open" /\ e.client = "open"
      [] DstQ(k) = "dstRecv" -> e.dconnA = "open" /\ e.dstEnd = "open"
      [] OTHER -> e.strA = "open" /\ e.strB = "open"

\* io.Copy(dst, src): one byte read from src is written to dst.
CopyMove(c, k) ==
    /\ task[c][k] = "run"
    /\ SrcOpen(ep[c], k)
    /\ q[c][SrcQ(k)] # <<>>
    /\ DstOK(ep[c], k)
    /\ q' = [q EXCEPT ![c] = [[@ EXCEPT ![DstQ(k)] = Append(@, q[c][SrcQ(k)][1])]
                                  EXCEPT ![SrcQ(k)] = Tail(q[c][SrcQ(k)])]]
    /\ UNCHANGED <<now, ledger, aliveVars, pureVars, regVars, cpc, epc, cinfo, ep, task, closer, gh>>

\* io.Copy returns (EOF, or a failed Read or Write) and the goroutine sends
\* its signal: closer <- struct{}{}, on a channel of capacity 2.
CopyReturn(c, k) ==
    /\ task[c][k] = "run"
    /\ \/ ~SrcOpen(ep[c], k)
       \/ q[c][SrcQ(k)] = <<>> /\ SrcEOF(ep[c], k)
       \/ q[c][SrcQ(k)] # <<>> /\ ~DstOK(ep[c], k)
    /\ closer[c][Side(k)] < 2
    /\ closer' = [closer EXCEPT ![c][Side(k)] = @ + 1]
    /\ task' = [task EXCEPT ![c][k] = "done"]
    /\ UNCHANGED <<now, ledger, aliveVars, pureVars, regVars, cpc, epc, cinfo, ep, q, gh>>

\* <-closer returns: one signal is in the channel
\* -- mutant: the handler waits for the signals of both copies
BothSignalled(n) == n > 1
Signalled(n) == n > 0

\* ConnectToService's goroutine: <-closer; stream.Close(); conn.Close()
CTeardown(c) ==
    /\ cpc[c] = "copy"
    /\ Signalled(closer[c].B)
    /\ closer' = [closer EXCEPT ![c].B = @ - 1]
    /\ ep' = [ep EXCEPT ![c].strB = IF @ = "open" THEN "closed" ELSE @, ![c].connB = "closed"]
    /\ cpc' = [cpc EXCEPT ![c] = "done"]
    /\ UNCHANGED <<now, ledger, aliveVars, pureVars, regVars, epc, cinfo, q, task, gh>>

\* The stream handler: <-closer; stream.Close(); c.Close()
ETeardown(c) ==
    /\ epc[c] = "copy"
    /\ Signalled(closer[c].A)
    /\ closer' = [closer EXCEPT ![c].A = @ - 1]
    /\ ep' = [ep EXCEPT ![c].strA = IF @ = "open" THEN "closed" ELSE @, ![c].dconnA = "closed"]
    /\ epc' = [epc EXCEPT ![c] = "done"]
    /\ UNCHANGED <<now, ledger, aliveVars, pureVars, regVars, cpc, cinfo, q, task, gh>>

\* The local client writes its next byte, or closes its connection.
ClientWrite(c) ==
    /\ ep[c].client = "open" /\ ep[c].connB = "open"
    /\ q[c].cliN < MaxMsg
    /\ q' = [q EXCEPT ![c].cliN = @ + 1,
                       ![c].cliOut = Append(@, Payload(c, "up", q[c].cliN + 1))]
    /\ UNCHANGED <<now, ledger, aliveVars, pureVars, regVars, cpc, epc, cinfo, ep, task, closer, gh>>

ClientClose(c) ==
    /\ ep[c].client = "open"
    /\ ep' = [ep EXCEPT ![c].client = "closed"]
    /\ UNCHANGED <<now, ledger, aliveVars, pureVars, regVars, cpc, epc, cinfo, q, task, closer, gh>>

\* The local destination writes its next byte, or closes its connection.
DstWrite(c) ==
    /\ ep[c].dstEnd = "open" /\ ep[c].dconnA = "open"
    /\ q[c].dstN < MaxMsg
    /\ q' = [q EXCEPT ![c].dstN = @ + 1,
                       ![c].dstOut = Append(@, Payload(c, "down", q[c].dstN + 1))]
    /\ UNCHANGED <<now, ledger, aliveVars, pureVars, regVars, cpc, epc, cinfo, ep, task, closer, gh>>

DstClose(c) ==
    /\ ep[c].dstEnd = "open"
    /\ ep' = [ep EXCEPT ![c].dstEnd = "closed"]
    /\ UNCHANGED <<now, ledger, aliveVars, pureVars, regVars, cpc, epc, cinfo, q, task, closer, gh>>

InitTunnel ==
    /\ now = 0
    /\ ledger = EmptyLedger
    /\ AliveIdle
    /\ RegIdle
    /\ TunIdle

\* Peer A exposes a service, peer B connects to it and accepts the
\* connections C.
Program(C) ==
    \/ \E s \in Names, d \in Dsts : ExposeService(1, "A", s, d)
    \/ PublishRead(1)
    \/ PublishWrite(1)
    \/ \E s \in Names : ConnectListen(1, "B", s)
    \/ ConnectAnnounce(1)
    \/ GrantRead(1)
    \/ GrantWrite(1)
    \/ \E c \in C : Accept(1, c)
    \/ \E c \in C : CResolve(c)
    \/ \E c \in C : CNewStream(c)
    \/ \E c \in C : ECheck(c)
    \/ \E c \in C : EDial(c)
    \/ \E c \in C, k \in Tasks : CopyMove(c, k)
    \/ \E c \in C, k \in Tasks : CopyReturn(c, k)
    \/ \E c \in C : CTeardown(c)
    \/ \E c \in C : ETeardown(c)

\* The endpoints write; another peer writes the services bucket.
Writers(C) ==
    \/ \E s \in Names : ForeignWrite(s)
    \/ \E c \in C : ClientWrite(c)
    \/ \E c \in C : DstWrite(c)

\* The endpoints close.
Closers(C) ==
    \/ \E c \in C : ClientClose(c)
    \/ \E c \in C : DstClose(c)

\* One connection, whose endpoints write and close at any time.
NextTunnel == Program({1}) \/ Writers({1}) \/ Closers({1})

\* Two connections at once; only their clients write and close.
NextTunnel2 ==
    \/ Program(Conns)
    \/ \E s \in Names : ForeignWrite(s)
    \/ \E c \in Conns : ClientWrite(c)
    \/ \E c \in Conns : ClientClose(c)

SpecTunnel2 == InitTunnel /\ [][NextTunnel2]_vars

\* The goroutines of a connection are scheduled: a step one of them can
\* take for ever is taken.
GoroutinesRun(c) ==
    /\ WF_vars(CResolve(c)) /\ WF_vars(CNewStream(c))
    /\ WF_vars(ECheck(c)) /\ WF_vars(EDial(c))
    /\ \A k \in Tasks : WF_vars(CopyMove(c, k)) /\ WF_vars(CopyReturn(c, k))
    /\ WF_vars(CTeardown(c)) /\ WF_vars(ETeardown(c))

SpecTunnelFair == InitTunnel /\ [][NextTunnel]_vars /\ GoroutinesRun(1)

SpecTunnel == InitTunnel /\ [][NextTunnel]_vars

\* Peer A exposes services of ServiceNames, one call after the other; peer B
\* connects to one of them and accepts one connection, which stays open.
ServiceNames == {"web", "ssh"}
NextHandler ==
    \/ \E x \in ExposeIds, s \in ServiceNames, d \in Dsts : ExposeService(x, "A", s, d)
    \/ \E x \in ExposeIds : PublishRead(x)
    \/ \E x \in ExposeIds : PublishWrite(x)
    \/ \E s \in ServiceNames : ConnectListen(1, "B", s)
    \/ ConnectAnnounce(1)
    \/ GrantRead(1)
    \/ GrantWrite(1)
    \/ Accept(1, 1)
    \/ CResolve(1)
    \/ CNewStream(1)
    \/ ECheck(1)
    \/ EDial(1)
    \/ \E k \in Tasks : CopyMove(1, k)
    \/ ClientWrite(1)

SpecHandler == InitTunnel /\ [][NextHandler]_vars

\* Two connections at once, both endpoints of each writing, none closing.
NextDuplex ==
    \/ \E s \in Names, d \in Dsts : ExposeService(1, "A", s, d)
    \/ PublishRead(1)
    \/ PublishWrite(1)
    \/ \E s \in Names : ConnectListen(1, "B", s)
    \/ ConnectAnnounce(1)
    \/ GrantRead(1)
    \/ GrantWrite(1)
    \/ \E c \in Conns : Accept(1, c)
    \/ \E c \in Conns : CResolve(c)
    \/ \E c \in Conns : CNewStream(c)
    \/ \E c \in Conns : ECheck(c)
    \/ \E c \in Conns : EDial(c)
    \/ \E c \in Conns, k \in Tasks : CopyMove(c, k)
    \/ \E c \in Conns : ClientWrite(c)
    \/ \E c \in Conns : DstWrite(c)

SpecDuplex == InitTunnel /\ [][NextDuplex]_vars

\* One connection, behind a listener whose Accept may return errors.
NextAccept == NextTunnel \/ AcceptError(1)

SpecAccept == InitTunnel /\ [][NextAccept]_vars

----------------------------------------------------------------------------
(* Claims about the liveness monitor                                       *)

DeletesOf(n) == {d \in deleted : d.node = n}

\* C3: a node deletes the healthcheck bucket in a tick only if, in that tick,
\* its live set is non-empty, it is the leader elected from that set and at
\* least scrubTime has passed since its last scrub check; so two deletes of
\* one node are at least scrubTime apart.
C3_DeleteOnlyByDueLeader ==
    /\ [][\A n \in Nodes :
            [node |-> n, at |-> now] \in deleted' \ deleted =>
                /\ apc[n] = "scrub"
                /\ ActiveKeys(ledger, now) # {}
                /\ \E nodes \in AvailableNodes(ledger, now) : Leader(nodes) = n
                /\ now >= t[n] + scrubTime]_vars
    /\ [](\A d1, d2 \in deleted :
            d1.node = d2.node /\ d1.at < d2.at => d2.at - d1.at >= scrubTime)
    /\ [][ledger'[HealthCheckKey] = EmptyMap /\ ledger[HealthCheckKey] # EmptyMap
            => deleted' # deleted]_vars

\* C3 witness: one node has deleted the bucket twice.
C3_Witness == \E n \in Nodes : Cardinality(DeletesOf(n)) >= 2

\* The stable cluster of C4: every monitor started together at time 0 and
\* none was cancelled; the scrub interval is a whole number of announce
\* intervals, so that every window starts on a tick.
StableCluster ==
    /\ \A n \in Nodes : alive[n] = "running" /\ startedAt[n] = 0
    /\ scrubTime % announcetime = 0

DeletesInWindow(k) ==
    {d \in deleted : k * scrubTime <= d.at /\ d.at < (k + 1) * scrubTime}

\* C4: in a stable cluster with synchronized clocks exactly one delete of the
\* healthcheck bucket is issued in each scrub-interval window: never two, and
\* one once the window is over.
C4_ExactlyOneDeletePerWindow ==
    StableCluster =>
        \A k \in 1..MaxTime :
            /\ Cardinality(DeletesInWindow(k)) <= 1
            /\ now >= (k + 1) * scrubTime => Cardinality(DeletesInWindow(k)) = 1

\* C5: after a delete of the bucket, the heartbeat of every node whose monitor
\* still runs is back in the bucket at most one announce interval later.
C5_HeartbeatRestored ==
    \A n \in Nodes :
        alive[n] = "running" /\ pending[n] # -1 => now <= pending[n] + announcetime

\* C5 witness: a node's heartbeat was deleted and its next tick wrote it again.
C5_Witness ==
    \E n \in Nodes :
        /\ alive[n] = "running" /\ pending[n] = -1
        /\ n \in DOMAIN ledger[HealthCheckKey]
        /\ \E d \in deleted : d.at < now /\ startedAt[n] # -1 /\ startedAt[n] <= d.at

----------------------------------------------------------------------------
(* Claims about the live set and the leader                                *)

\* C6: AvailableNodes returns a key exactly when its entry parses to a
\* timestamp ts with now < ts + 15min (an entry with now = ts + 15min is left
\* out), and returns no key twice.
C6_LiveSetIsTTLRule ==
    ppc \in {"computed", "elected"} =>
        /\ \A u \in Nodes :
            (\E i \in 1..Len(active) : active[i] = u) <=>
                /\ u \in DOMAIN ledger[HealthCheckKey]
                /\ ledger[HealthCheckKey][u].kind = "rfc3339"
                /\ now < ledger[HealthCheckKey][u].sec * Second + LivenessTTL
        /\ \A i, j \in 1..Len(active) : active[i] = active[j] => i = j

\* C6 witness: one entry is exactly 15min old and left out, another is younger
\* and returned.
C6_Witness ==
    /\ ppc = "computed"
    /\ Len(active) >= 1
    /\ \E u \in DOMAIN ledger[HealthCheckKey] :
        /\ ledger[HealthCheckKey][u].kind = "rfc3339"
        /\ now = ledger[HealthCheckKey][u].sec * Second + LivenessTTL
        /\ u \notin Range(active)

\* C7: the leader elected from a non-empty list is a member of the list, is the
\* same for every order of the list, and is the only entry of a list of one.
C7_LeaderOfTheSet ==
    ppc = "elected" =>
        /\ lead \in Range(active)
        /\ \A p \in Orders(Range(active)) : Leader(p) = lead
        /\ Len(active) = 1 => lead = active[1]

\* C7 witness: three live peers, and the leader is not the first of the list.
C7_Witness == ppc = "elected" /\ Len(active) = 3 /\ lead # active[1]

----------------------------------------------------------------------------
(* Claims about the registry                                               *)

\* C8: of two successive Publish ticks of one ExposeService call, with no
\* write of the name by another peer in between, the second finds the entry
\* with itself as owner and writes nothing.
C8_SecondPublishWritesNothing ==
    \A x \in ExposeIds :
        /\ pub[x].st = "write" => ~pubSecond[x]
        /\ pub[x].st = "idle" /\ pubClean[x] /\ pubSecond[x] =>
                /\ GetKeyFound(ledger, ServicesLedgerKey, pub[x].name)
                /\ ledger[ServicesLedgerKey][pub[x].name] = Service(pub[x].peer, pub[x].name)

\* C8 witness: a second tick in succession has run and left the entry as it was.
C8_Witness ==
    \E x \in ExposeIds : pub[x].st = "idle" /\ pubClean[x] /\ pubSecond[x]

\* C9: at most one write is made under a peer's key of the users bucket, and
\* an entry of the users bucket is never overwritten.
C9_GrantWrittenOnce ==
    /\ [](\A p \in Peers : userWrites[p] <= 1)
    /\ [][\A p \in Peers :
            p \in DOMAIN ledger[UsersLedgerKey] =>
                /\ p \in DOMAIN ledger'[UsersLedgerKey]
                /\ ledger'[UsersLedgerKey][p] = ledger[UsersLedgerKey][p]]_vars

----------------------------------------------------------------------------
(* Claims about the tunnel                                                 *)

\* C1: when the users bucket has no entry for the remote peer at the
\* admission check, the stream is reset and no dial of the destination is made
\* for it, and no byte is copied from or to the destination.
C1_ResetWithoutDial ==
    \A c \in Conns :
        gh[c].user = "absent" =>
            /\ epc[c] = "reset"
            /\ ep[c].strA = "reset"
            /\ ~gh[c].dialed
            /\ ep[c].dconnA = "none" /\ ep[c].dstEnd = "none"
            /\ task[c].aUp = "off" /\ task[c].aDown = "off"
            /\ q[c].dstRecv = <<>> /\ q[c].down1 = <<>> /\ q[c].cliRecv = <<>>

\* C1 witness: the client had written, the stream of an ungranted peer was
\* reset and the connecting side has torn the connection down.
C1_Witness ==
    \E c \in Conns : gh[c].user = "absent" /\ q[c].cliN >= 1 /\ cpc[c] = "done"

Bridged(c) == cpc[c] = "copy" /\ epc[c] = "copy"
Ended(c) == ep[c].client = "closed" \/ ep[c].dstEnd = "closed"
DeliveredUp(c, i) == Len(q[c].dstRecv) >= i /\ q[c].dstRecv[i] = Payload(c, "up", i)
DeliveredDown(c, i) == Len(q[c].cliRecv) >= i /\ q[c].cliRecv[i] = Payload(c, "down", i)

\* C2: once a connection is bridged at both peers, every byte the client has
\* written is eventually delivered to the destination and every byte the
\* destination has written is eventually delivered to the client, unless one
\* of the two ends its connection.
C2_BytesDeliveredBothWays ==
    \A i \in 1..MaxMsg :
        /\ (Bridged(1) /\ q[1].cliN >= i) ~> (DeliveredUp(1, i) \/ Ended(1))
        /\ (Bridged(1) /\ q[1].dstN >= i) ~> (DeliveredDown(1, i) \/ Ended(1))

\* C2 witness: the client's bytes are at the destination and the reply is at
\* the client, both still connected.
C2_Witness ==
    /\ Bridged(1) /\ ~Ended(1)
    /\ q[1].cliN = MaxMsg /\ DeliveredUp(1, MaxMsg)
    /\ q[1].dstN = MaxMsg /\ DeliveredDown(1, MaxMsg)

\* Nothing of connection c has changed in this step.
Untouched(c) ==
    /\ cpc'[c] = cpc[c] /\ epc'[c] = epc[c] /\ cinfo'[c] = cinfo[c] /\ ep'[c] = ep[c]
    /\ q'[c] = q[c] /\ task'[c] = task[c] /\ closer'[c] = closer[c] /\ gh'[c] = gh[c]

\* C10: a connection whose service has no entry in the services bucket, or an
\* entry that does not decode, or whose stream cannot be opened, is closed
\* without a stream and without a copy; the step that closes it leaves the
\* listener, the ledger and every other connection as they were.
C10_AbortIsLocal ==
    /\ [](\A c \in Conns :
            /\ gh[c].svc \in {"absent", "malformed"} =>
                    cpc[c] = "aborted" /\ ~gh[c].streamTried
            /\ cpc[c] = "aborted" =>
                    /\ ep[c].connB = "closed"
                    /\ ep[c].strB = "none" /\ ep[c].strA = "none" /\ epc[c] = "none"
                    /\ \A k \in Tasks : task[c][k] = "off"
                    /\ q[c].up1 = <<>> /\ q[c].dstRecv = <<>> /\ q[c].cliRecv = <<>>)
    /\ [][\A c \in Conns :
            cpc[c] # "aborted" /\ cpc'[c] = "aborted" =>
                /\ con' = con /\ con[cinfo[c].call].st = "accepting"
                /\ ledger' = ledger
                /\ \A c2 \in Conns \ {c} : Untouched(c2)]_vars

\* C10 witness: the first connection found no entry and was closed; the
\* second, accepted by the same listener, is bridged and has delivered a byte.
C10_Witness ==
    /\ cpc[1] = "aborted" /\ gh[1].svc = "absent"
    /\ cpc[2] = "copy" /\ Len(q[2].dstRecv) >= 1

\* C11: once the accept loop runs, no step ends it, an error returned by
\* Accept included; a listener that has returned errors is still accepting.
C11_AcceptErrorsAreRetried ==
    /\ [][\A k \in ConnectIds :
            con[k].st = "accepting" => con'[k].st = "accepting"]_vars
    /\ [](\A k \in ConnectIds : con[k].errs > 0 => con[k].st = "accepting")

\* C11 witness: a connection accepted after MaxAcceptErr errors is bridged
\* and has delivered the client's byte.
C11_Witness ==
    \E c \in Conns :
        /\ cpc[c] = "copy" /\ cinfo[c].errs = MaxAcceptErr
        /\ con[cinfo[c].call].errs = MaxAcceptErr
        /\ DeliveredUp(c, 1)
\* C12: a ConnectToService call has started its Grant callback by the time
\* its listener is opened (bound or failed to bind); a call whose bind failed
\* never accepts.
C12_GrantStartedBeforeListen ==
    /\ \A k \in ConnectIds : con[k].st # "off" => con[k].gst # "off"
    /\ \A c \in Conns : cpc[c] # "free" => con[cinfo[c].call].st # "failed"

\* C13: a tick sets the node's scrub timer to now exactly when its live set
\* is not empty and scrubTime has passed since the timer, leader or not, and
\* leaves it unchanged otherwise; a delete is issued only when scrubTime has
\* passed since the timer, so a node that has reset its timer without being
\* the leader deletes nothing for a further scrubTime.
C13_ScrubTimerUpdate ==
    /\ [][\A n \in Nodes :
            apc[n] = "scrub" /\ apc'[n] = "idle" =>
                t'[n] = IF ActiveKeys(ledger, now) # {} /\ now >= t[n] + scrubTime
                        THEN now ELSE t[n]]_vars
    /\ [][\A n \in Nodes :
            t'[n] # t[n] => alive[n] = "off" \/ apc[n] = "scrub"]_vars
    /\ [](\A n \in Nodes : \A d \in DeletesOf(n) : d.at <= t[n])
    /\ [][\A n \in Nodes :
            DeletesOf(n)' # DeletesOf(n) => now >= t[n] + scrubTime]_vars

\* C13 witness: a node that reset its timer in a tick where it deleted
\* nothing is, before a further scrubTime has passed, the only live node and
\* so the leader.
C13_Witness ==
    \E n \in Nodes :
        /\ alive[n] = "running" /\ apc[n] = "idle"
        /\ t[n] > startedAt[n]
        /\ [node |-> n, at |-> t[n]] \notin deleted
        /\ now > t[n] /\ now < t[n] + scrubTime
        /\ ActiveKeys(ledger, now) = {n}

SideTasks(sd) == {k \in Tasks : Side(k) = sd}
HandlerDone(c, sd) == IF sd = "A" THEN epc[c] = "done" ELSE cpc[c] = "done"
\* Both endpoints of the handler of side sd are closed.
BothClosed(e, sd) ==
    IF sd = "A" THEN e.strA # "open" /\ e.dconnA = "closed"
    ELSE e.strB # "open" /\ e.connB = "closed"

\* C14: the handler of a bridged pair returns after the first signal of its
\* two copies, having closed both endpoints, without waiting for the second
\* copy; the second copy then returns as well; a copy that returns always
\* finds room for its signal in the channel.
C14_TeardownAfterFirstSignal ==
    /\ \A sd \in {"A", "B"} :
        /\ ((\E k \in SideTasks(sd) : task[1][k] = "done") ~> HandlerDone(1, sd))
        /\ (HandlerDone(1, sd) ~> (\A k \in SideTasks(sd) : task[1][k] = "done"))
    /\ [](\A c \in Conns, sd \in {"A", "B"} :
            /\ HandlerDone(c, sd) =>
                    BothClosed(ep[c], sd) /\ \E k \in SideTasks(sd) : task[c][k] = "done"
            /\ closer[c][sd] <= 2
            /\ \A k \in SideTasks(sd) : task[c][k] = "run" => closer[c][sd] < 2)

\* C14 witness: the stream handler has returned with both endpoints closed
\* while its second copy is still running.
C14_Witness ==
    /\ epc[1] = "done" /\ BothClosed(ep[1], "A")
    /\ task[1].aUp = "done" /\ task[1].aDown = "run"

\* The snapshot l without the healthcheck entries that do not parse.
WithoutUnparsed(l) ==
    [l EXCEPT ![HealthCheckKey] =
        [u \in {w \in DOMAIN l[HealthCheckKey] : l[HealthCheckKey][w].kind = "rfc3339"}
            |-> l[HealthCheckKey][u]]]

\* C15: a healthcheck entry whose value does not parse as a timestamp is
\* never returned by AvailableNodes, and the keys returned are those returned
\* for the same snapshot without the unparsable entries.
C15_UnparsedEntriesAreSkipped ==
    ppc \in {"computed", "elected"} =>
        /\ \A u \in DOMAIN ledger[HealthCheckKey] :
                ledger[HealthCheckKey][u].kind # "rfc3339" => u \notin Range(active)
        /\ Range(active) = ActiveKeys(WithoutUnparsed(ledger), now)
        /\ Len(active) = Cardinality(ActiveKeys(WithoutUnparsed(ledger), now))

\* C15 witness: the snapshot holds an unparsable entry, a live entry that is
\* returned and an expired entry that is not.
C15_Witness ==
    /\ ppc = "computed"
    /\ \E u, v, w \in DOMAIN ledger[HealthCheckKey] :
        /\ ledger[HealthCheckKey][u].kind = "garbage"
        /\ v \in Range(active)
        /\ ledger[HealthCheckKey][w].kind = "rfc3339" /\ w \notin Range(active)

Owner(s) == IF GetKeyFound(ledger, ServicesLedgerKey, s) THEN ledger[ServicesLedgerKey][s].PeerID ELSE None
\* Another call publishes the name of call x for another peer.
Rival(x) ==
    \E y \in ExposeIds : pub[y].st # "off" /\ pub[y].name = pub[x].name /\ pub[y].peer # pub[x].peer
\* The entry is the one call x writes and call x has no write under way.
Settled(x) ==
    /\ pub[x].st = "idle"
    /\ GetKeyFound(ledger, ServicesLedgerKey, pub[x].name)
    /\ ledger[ServicesLedgerKey][pub[x].name] = Service(pub[x].peer, pub[x].name)

\* C16: a Publish tick writes {owner P, name s}, and does so exactly when the
\* entry for s is absent or names another owner; while no other peer
\* publishes s the entry comes to name P, whatever stale entry was there, and
\* from then on P writes no more.
C16_PublishConverges ==
    /\ [][\A x \in ExposeIds :
            pub[x].st = "idle" /\ pub'[x] # pub[x] =>
                (pub'[x].st = "write" <=> Owner(pub[x].name) # pub[x].peer)]_vars
    /\ [][\A x \in ExposeIds :
            pub[x].st = "write" /\ pub'[x].st = "idle" =>
                ledger'[ServicesLedgerKey][pub[x].name] = Service(pub[x].peer, pub[x].name)]_vars
    /\ [][ledger' # ledger => \E x \in ExposeIds : pub[x].st = "write" /\ pub'[x].st = "idle"]_vars
    /\ \A x \in ExposeIds : (pub[x].st # "off") ~> (Settled(x) \/ Rival(x))
    /\ [][\A x \in ExposeIds : Settled(x) /\ ~Rival(x)' => Settled(x)']_vars

\* C16 witness: the tick of the only publisher has found the entry naming
\* another peer, which publishes no more, and is about to write.
C16_Witness ==
    \E x \in ExposeIds :
        /\ pub[x].st = "write"
        /\ Owner(pub[x].name) \in Peers \ {pub[x].peer}
        /\ \A y \in ExposeIds : pub[y].st # "off" /\ pub[y].peer = pub[x].peer

\* Calls x and y publish one name for two peers.
Rivals(x, y) ==
    /\ pub[x].st # "off" /\ pub[y].st # "off"
    /\ pub[x].name = pub[y].name /\ pub[x].peer # pub[y].peer

\* C17: while two peers publish one service name the entry never settles:
\* whenever it names one of them it comes to name the other, so the writes
\* for the name never cease and the owner alternates for ever.
C17_RivalPublishersNeverSettle ==
    \A x, y \in ExposeIds :
        (Rivals(x, y) /\ Owner(pub[x].name) = pub[x].peer) ~> (Owner(pub[x].name) = pub[y].peer)

\* C17 witness: the entry names one publisher, whose tick has run, and the
\* other's tick is about to write over it.
C17_Witness ==
    \E x, y \in ExposeIds :
        /\ Rivals(x, y)
        /\ Owner(pub[x].name) = pub[y].peer /\ pub[y].st = "idle" /\ pubClean[y]
        /\ pub[x].st = "write" /\ ~pubClean[x]

\* The ExposeService calls made on peer p, and the last of them.
ExposedOn(p) == {x \in ExposeIds : pub[x].st # "off" /\ pub[x].peer = p}
LastExposed(p) == CHOOSE x \in ExposedOn(p) : \A y \in ExposedOn(p) : y <= x

\* C18: a node has one handler for the protocol, that of its most recent
\* ExposeService call; a stream is handled by the handler set when it is
\* opened, so every stream that is admitted is bridged to the destination of
\* the most recent call, whatever name the connecting peer has resolved.
C18_LastExposeHandlesEveryStream ==
    /\ [](\A p \in Peers :
            handler[p] = IF ExposedOn(p) = {} THEN NoHandler
                         ELSE [name |-> pub[LastExposed(p)].name, dst |-> pub[LastExposed(p)].dst])
    /\ [][\A c \in Conns :
            cpc[c] = "open" /\ cpc'[c] = "copy" =>
                /\ cinfo'[c].hname = pub[LastExposed(cinfo[c].target)].name
                /\ cinfo'[c].hdst = pub[LastExposed(cinfo[c].target)].dst]_vars
    /\ [][\A c \in Conns :
            cpc[c] = "copy" => cinfo'[c].hdst = cinfo[c].hdst /\ cinfo'[c].hname = cinfo[c].hname]_vars

\* C18 witness: a client of one service has its byte delivered to the
\* destination of another service, exposed last on the owner of the first.
C18_Witness ==
    \E c \in Conns :
        /\ epc[c] = "copy" /\ DeliveredUp(c, 1)
        /\ cinfo[c].hname # con[cinfo[c].call].name
        /\ \E x \in ExposeIds :
            /\ pub[x].st # "off" /\ pub[x].name = con[cinfo[c].call].name
            /\ pub[x].peer = cinfo[c].target /\ pub[x].dst # cinfo[c].hdst

\* The last tick of node n has ended and has deleted the bucket.
DeletedInLastTick(n) ==
    /\ apc[n] = "idle"
    /\ [node |-> n, at |-> nextTick[n] - announcetime] \in deleted

\* C19: a tick that deletes the healthcheck bucket has written its heartbeat
\* before, and the delete removes it with the rest; from the end of that tick
\* to the node's next tick the node has no entry in the bucket and is in no
\* live set computed meanwhile.
C19_ScrubRemovesOwnHeartbeat ==
    /\ [][\A n \in Nodes :
            DeletesOf(n)' # DeletesOf(n) =>
                /\ n \in DOMAIN ledger[HealthCheckKey]
                /\ ledger[HealthCheckKey][n] = Format(now)
                /\ ledger'[HealthCheckKey] = EmptyMap]_vars
    /\ [](\A n \in Nodes :
            DeletedInLastTick(n) =>
                /\ n \notin DOMAIN ledger[HealthCheckKey]
                /\ \A nodes \in AvailableNodes(ledger, now) : n \notin Range(nodes))

\* C19 witness: after the leader's deleting tick another node is computing
\* its live set, has itself in it and not the leader, whose monitor runs.
C19_Witness ==
    \E n, m \in Nodes :
        /\ n # m /\ alive[n] = "running" /\ DeletedInLastTick(n)
        /\ apc[m] = "scrub"
        /\ ActiveKeys(ledger, now) = {m}

\* The first n bytes written by the client ("up") or the destination ("down")
\* of connection c.
Written(c, dir, n) == [i \in 1..n |-> Payload(c, dir, i)]
IsPrefix(a, b) == Len(a) <= Len(b) /\ \A i \in 1..Len(a) : a[i] = b[i]

====
